---- MODULE Spec2Model ----
(***************************************************************************)
(* Model of the esp32-ble-server abstraction layer: the server facade      *)
(* (src/ble.c), the GATT server module (src/ble-gatts.c) and the GAP       *)
(* module (ble-gap.c, in src/unnamed/part_001), running on top of the      *)
(* ESP-IDF controller / Bluedroid host stack, which is the environment.    *)
(*                                                                         *)
(* Conventions                                                             *)
(*  - a C pointer to the caller's array is modelled by the array itself;   *)
(*    a NULL array pointer is the empty sequence (the code never stores    *)
(*    an empty non-NULL array: ble_server_init rejects count == 0);        *)
(*  - a NULL and an empty description are both the empty sequence: every   *)
(*    use in the code (ble-gatts.c:239, 428-438) treats them alike;        *)
(*  - a callback pointer is modelled by its presence (BOOLEAN);            *)
(*  - s_char_handles[i].def = &s_characteristics[i] is the index i, and    *)
(*    NoDef is the NULL pointer;                                           *)
(*  - calls is the sequence of stack calls issued by the last operation,   *)
(*    lastOp / lastArg / lastRet describe that operation;                  *)
(*  - issued is the history of the add requests of the current             *)
(*    registration, delivered the history of its completion events,        *)
(*    connEvt the last connection event the handler was given.             *)
(***************************************************************************)
EXTENDS Integers, Sequences, FiniteSets, TLC

\* ------------------------------------------------------------------------
\* Program constants
\* ------------------------------------------------------------------------
MAX_CHARACTERISTICS == 16
HANDLES_PER_CHAR == 3
SERVICE_HANDLE_COUNT == 1
MAX_MTU_SIZE == 500
GATTS_APP_ID == 0
ESP_GATT_IF_NONE == 255

BLE_SUCCESS == 0
BLE_GENERIC_ERROR == 1
BLE_ALREADY_INITIALIZED == 2
BLE_NOT_INITIALIZED == 3
BLE_INVALID_CONFIG == 4
BLE_INVALID_CHARS == 5

ADV_CONFIG_FLAG == 1
SCAN_RSP_CONFIG_FLAG == 2
RAW_ADV_DATA_SIZE == 31
RAW_SCAN_RSP_DATA_SIZE == 31

ESP_GATT_CHAR_PROP_BIT_READ == 2
ESP_GATT_CHAR_PROP_BIT_WRITE == 8
ESP_GATT_PERM_READ == 1
ESP_GATT_PERM_WRITE == 16

\* esp_gatt_status_t, and the size of esp_gatt_value_t.value
ESP_GATT_OK == 0
ESP_GATT_INVALID_HANDLE == 1
ESP_GATT_READ_NOT_PERMIT == 2
ESP_GATT_WRITE_NOT_PERMIT == 3
ESP_GATT_INVALID_ATTR_LEN == 13
ESP_GATT_BUSY == 132
ESP_GATT_ERROR == 133
ESP_GATT_OUT_OF_RANGE == 255
ESP_GATT_MAX_ATTR_LEN == 600

\* ble_char_error_t
BLE_CHAR_OK == 0
BLE_CHAR_ERR_SIZE == 1
BLE_CHAR_ERR_VALUE == 2
BLE_CHAR_ERR_READONLY == 3
BLE_CHAR_ERR_BUSY == 4

\* ------------------------------------------------------------------------
\* Bounds of the model
\* ------------------------------------------------------------------------
\* longest characteristic list that is enumerated exhaustively
MaxListLen == 1
\* largest connection identifier the stack hands out
MaxConnId == 1
\* length of the device name of the modelled configurations
DeviceNameLen == 9
\* attribute handles of peer requests: 0 and the first MaxHandleSpan + 1
\* handles the stack assigns
MaxHandleSpan == 5
\* largest offset of a read request
MaxOffset == 4
\* largest byte count a read callback returns
MaxReadLen == 1
\* largest value a write callback returns (the enumerators and one more)
MaxWriteResult == 5
\* add completions the handler is given a second time
MaxRepeats == 1

\* ------------------------------------------------------------------------
\* Values of the environment (the Bluedroid stack)
\* ------------------------------------------------------------------------
\* interface the stack assigns at application registration
StackGattsIf == 3
\* first attribute handle the stack assigns to a created service
StackFirstHandle == 40
\* value of lastRet for an operation that returns nothing
NoRet == -1
\* NULL for ble_char_handle_t.def
NoDef == -1
\* transaction identifier of a peer request
EvtTransId == 1

\* ------------------------------------------------------------------------
\* Characteristic definitions and configurations (inputs of ble_server_init)
\* ------------------------------------------------------------------------
SomeDescription == <<72, 105, 33>>

\* read-only, write-only with a description, read/write, and no callback
CharKinds ==
  << [read |-> TRUE,  write |-> FALSE, description |-> <<>>],
     [read |-> FALSE, write |-> TRUE,  description |-> SomeDescription],
     [read |-> TRUE,  write |-> TRUE,  description |-> <<>>],
     [read |-> FALSE, write |-> FALSE, description |-> <<>>] >>

\* ble_characteristic_t at index i (0-based) of a list, of kind k
MkChar(k, i) ==
  [uuid |-> 65280 + i + 1, size |-> 1,
   read |-> k.read, write |-> k.write, description |-> k.description]

\* the list of n characteristics whose kinds follow CharKinds in turn from
\* kind number off, over the first nk kinds
CycleChars(n, off, nk) ==
  [i \in 1..n |-> MkChar(CharKinds[((off + i - 2) % nk) + 1], i - 1)]

\* every short list, with and without an entry that has no callback
ShortLists == { CycleChars(n, off, 4) : n \in 1..MaxListLen, off \in 1..4 }

\* a full list and one that is too long, every entry with a callback
FullList == CycleChars(MAX_CHARACTERISTICS, 1, 3)

LongList == CycleChars(MAX_CHARACTERISTICS + 1, 1, 3)

\* ble_server_config_t *: isNull is the NULL pointer, device_name the presence
\* of the name, characteristics = <<>> the NULL array pointer
MkConfig(name, chars, count) ==
  [isNull |-> FALSE, device_name |-> name, service_uuid |-> 255,
   characteristics |-> chars, characteristic_count |-> count]

NullConfig ==
  [isNull |-> TRUE, device_name |-> FALSE, service_uuid |-> 0,
   characteristics |-> <<>>, characteristic_count |-> 0]

OneReadChar == CycleChars(1, 1, 4)

InvalidConfigs ==
  { NullConfig,
    MkConfig(FALSE, OneReadChar, 1), MkConfig(FALSE, <<>>, 0),
    MkConfig(TRUE, <<>>, 0), MkConfig(TRUE, <<>>, 1), MkConfig(TRUE, OneReadChar, 0) }

\* the inputs of a run, by world:
\*   short  - every invalid configuration and every short list, on a stack
\*            that fails a call only in a state that does not allow it;
\*   full   - the full and the too long list, on the same stack;
\*   faulty - one list, on a stack that may make any call fail
Worlds == {"short", "full", "faulty"}

Configs(w) ==
  IF w = "short"
    THEN InvalidConfigs \cup { MkConfig(TRUE, cs, Len(cs)) : cs \in ShortLists }
  ELSE IF w = "full"
    THEN { MkConfig(TRUE, FullList, Len(FullList)), MkConfig(TRUE, LongList, Len(LongList)) }
  ELSE { MkConfig(TRUE, CycleChars(1, 2, 4), 1) }

\* ------------------------------------------------------------------------
\* State
\* ------------------------------------------------------------------------
VARIABLES
  \* src/ble.c
  s_initialized, s_config,
  \* src/ble-gatts.c
  s_characteristics, s_char_count, s_service_uuid, s_service_handle,
  s_gatts_if, s_conn_id, s_is_connected, s_char_handles,
  s_registered_chars, s_pending_descr_char,
  \* ble-gap.c
  adv_config_done, s_raw_adv_data, s_adv_params, s_raw_scan_rsp_data,
  \* the stack (environment)
  ctrl, host, gattsCb, gapCb, gattsQ, gapQ, advertising, linkUp, nextHandle,
  \* observation of the last operation and history of the registration
  lastOp, lastArg, lastRet, calls, issued, delivered, connEvt,
  \* the inputs of the run
  world

bleVars == <<s_initialized, s_config>>
gattsVars == <<s_characteristics, s_char_count, s_service_uuid, s_service_handle,
               s_gatts_if, s_conn_id, s_is_connected, s_char_handles,
               s_registered_chars, s_pending_descr_char>>
gapVars == <<adv_config_done, s_raw_adv_data, s_adv_params, s_raw_scan_rsp_data>>
stackVars == <<ctrl, host, gattsCb, gapCb, gattsQ, gapQ, advertising, linkUp, nextHandle>>
obsVars == <<lastOp, lastArg, lastRet, calls>>
histVars == <<issued, delivered, connEvt>>
vars == <<bleVars, gattsVars, gapVars, stackVars, obsVars, histVars, world>>

\* ------------------------------------------------------------------------
\* Initial state: the static initialisers of the three modules, stack down
\* ------------------------------------------------------------------------
NoArg == [kind |-> "none"]

EmptyHandle == [char_handle |-> 0, cccd_handle |-> 0, descr_handle |-> 0, def |-> NoDef]

EmptyTable == [i \in 0..(MAX_CHARACTERISTICS - 1) |-> EmptyHandle]

Init ==
  /\ s_initialized = FALSE
  /\ s_config = NullConfig
  /\ s_characteristics = <<>>
  /\ s_char_count = 0
  /\ s_service_uuid = 0
  /\ s_service_handle = 0
  /\ s_gatts_if = ESP_GATT_IF_NONE
  /\ s_conn_id = 0
  /\ s_is_connected = FALSE
  /\ s_char_handles = EmptyTable
  /\ s_registered_chars = 0
  /\ s_pending_descr_char = 0
  /\ adv_config_done = 0
  /\ s_raw_adv_data = FALSE
  /\ s_adv_params = FALSE
  /\ s_raw_scan_rsp_data = FALSE
  /\ ctrl = "idle"
  /\ host = "uninit"
  /\ gattsCb = FALSE
  /\ gapCb = FALSE
  /\ gattsQ = <<>>
  /\ gapQ = <<>>
  /\ advertising = FALSE
  /\ linkUp = FALSE
  /\ nextHandle = StackFirstHandle
  /\ lastOp = "boot"
  /\ lastArg = NoArg
  /\ lastRet = NoRet
  /\ calls = <<>>
  /\ issued = <<>>
  /\ delivered = <<>>
  /\ connEvt = "none"
  /\ world \in Worlds

\* ------------------------------------------------------------------------
\* Stack calls as they are logged in calls
\* ------------------------------------------------------------------------
Call(api, ok, arg) == [api |-> api, ok |-> ok, arg |-> arg]

Min(a, b) == IF a < b THEN a ELSE b

Bit(x, k) == (x \div (2 ^ k)) % 2

\* x | m and x & ~m on a uint8_t
RECURSIVE OrBits(_, _, _)
OrBits(x, m, k) ==
  IF k > 7 THEN 0
  ELSE (IF Bit(x, k) = 1 \/ Bit(m, k) = 1 THEN 2 ^ k ELSE 0) + OrBits(x, m, k + 1)

RECURSIVE AndNotBits(_, _, _)
AndNotBits(x, m, k) ==
  IF k > 7 THEN 0
  ELSE (IF Bit(x, k) = 1 /\ Bit(m, k) = 0 THEN 2 ^ k ELSE 0) + AndNotBits(x, m, k + 1)

\* ------------------------------------------------------------------------
\* ble-gap.c: payload builders and advertising start
\* ------------------------------------------------------------------------
\* ble_gap_config_adv: the payload size it returns, 0 when a payload is
\* already allocated (15 bytes of flags, tx power, uuid, appearance, header)
ble_gap_config_adv(size) ==
  IF s_raw_adv_data THEN 0
  ELSE IF s_adv_params THEN 0
  ELSE 15 + Min(size, RAW_ADV_DATA_SIZE - 13 - 2)

\* ble_gap_init_scan_rsp_data: the payload size it returns
ble_gap_init_scan_rsp_data(name_len) ==
  IF s_raw_scan_rsp_data THEN 0
  ELSE 12 + Min(name_len, RAW_SCAN_RSP_DATA_SIZE - 10 - 2)

\* a ble_gap_start_adv that does not look at the payload pointers
StartAdvCallsAlways(raw, params) == <<Call("esp_ble_gap_start_advertising", TRUE, NoArg)>>

\* ble_gap_start_adv with the payload pointers raw / params: the stack call
\* it issues, none when a payload is missing (ESP_ERR_INVALID_STATE)
StartAdvCalls(raw, params) ==
  IF ~raw \/ ~params THEN <<>>
  ELSE <<Call("esp_ble_gap_start_advertising", TRUE, NoArg)>>

\* ------------------------------------------------------------------------
\* ble-gatts.c: properties, permissions and the add requests
\* ------------------------------------------------------------------------
\* 0-based access to the caller's array
CharAt(chars, i) == chars[i + 1]

CharProps(ch) ==
  (IF ch.read THEN ESP_GATT_CHAR_PROP_BIT_READ ELSE 0)
    + (IF ch.write THEN ESP_GATT_CHAR_PROP_BIT_WRITE ELSE 0)

\* permissions that let every characteristic be read
CharPermsReadAlways(ch) ==
  ESP_GATT_PERM_READ + (IF ch.write THEN ESP_GATT_PERM_WRITE ELSE 0)

CharPerms(ch) ==
  (IF ch.read THEN ESP_GATT_PERM_READ ELSE 0)
    + (IF ch.write THEN ESP_GATT_PERM_WRITE ELSE 0)

\* esp_ble_gatts_add_char(s_service_handle, &char_uuid, perms, props, NULL, NULL)
AddCharCall(svc, ch) ==
  Call("esp_ble_gatts_add_char", TRUE,
       [service_handle |-> svc, uuid |-> ch.uuid,
        perm |-> CharPerms(ch), prop |-> CharProps(ch)])

\* esp_ble_gatts_add_char_descr(s_service_handle, 0x2901, PERM_READ, &descr_value, NULL)
AddDescrCall(svc, ch) ==
  Call("esp_ble_gatts_add_char_descr", TRUE,
       [service_handle |-> svc, uuid |-> 10497, perm |-> ESP_GATT_PERM_READ,
        attr_len |-> Len(ch.description), attr_value |-> ch.description])

\* a budget without the descriptor slot of each characteristic
CALC_NUM_HANDLES_NO_DESCR(char_count) == SERVICE_HANDLE_COUNT + (char_count * 2)

\* CALC_NUM_HANDLES
CALC_NUM_HANDLES(char_count) == SERVICE_HANDLE_COUNT + (char_count * HANDLES_PER_CHAR)

\* find_char_by_handle: the index of the first entry below s_char_count whose
\* value handle is handle, NoDef (NULL) when there is none
find_char_by_handle(handle) ==
  LET hits == { i \in 0..(s_char_count - 1) : s_char_handles[i].char_handle = handle }
  IN IF hits = {} THEN NoDef ELSE CHOOSE i \in hits : \A j \in hits : i <= j

find_char_by_descr_handle(handle) ==
  LET hits == { i \in 0..(s_char_count - 1) :
                  /\ s_char_handles[i].descr_handle # 0
                  /\ s_char_handles[i].descr_handle = handle }
  IN IF hits = {} THEN NoDef ELSE CHOOSE i \in hits : \A j \in hits : i <= j

\* a connection state read from the connection identifier
ble_gatts_is_connected_by_id == s_conn_id # 0

ble_gatts_is_connected == s_is_connected

\* ------------------------------------------------------------------------
\* src/ble.c: ble_server_init
\* ------------------------------------------------------------------------
\* what a configuration argument is, for the record of the last operation
CfgFacts(cfg) ==
  [kind |-> "config",
   isNull |-> cfg.isNull,
   noName |-> ~cfg.isNull /\ ~cfg.device_name,
   noChars |-> ~cfg.isNull /\ (cfg.characteristics = <<>> \/ cfg.characteristic_count = 0),
   fault |-> "none",
   tooMany |-> cfg.characteristic_count > MAX_CHARACTERISTICS,
   noCap |-> \E i \in 1..Len(cfg.characteristics) :
               ~cfg.characteristics[i].read /\ ~cfg.characteristics[i].write]

\* the steps of the bring-up, in the order of the code; step 6 is the
\* argument check of ble_gatts_init, the others are stack calls
InitSteps ==
  << "esp_bt_controller_mem_release", "esp_bt_controller_init",
     "esp_bt_controller_enable", "esp_bluedroid_init", "esp_bluedroid_enable",
     "ble_gatts_init_args", "esp_ble_gatts_register_callback",
     "esp_ble_gatts_app_register", "esp_ble_gap_register_callback",
     "esp_ble_gap_set_device_name", "esp_ble_gap_config_adv_data_raw",
     "esp_ble_gap_config_scan_rsp_data_raw" >>

\* a stack call of the bring-up that the environment makes fail, or none
InitFaults ==
  IF world = "faulty" /\ ctrl = "idle"
    THEN {"none"} \cup { InitSteps[i] : i \in (1..12) \ {6} }
    ELSE {"none"}

\* step i succeeds: the stack accepts a controller / host call only in the
\* state it needs, and ble_gatts_init accepts at most MAX_CHARACTERISTICS
InitStepOk(i, cfg, fault) ==
  /\ fault # InitSteps[i]
  /\ CASE i = 1 -> ctrl = "idle"
       [] i = 2 -> ctrl = "idle"
       [] i = 4 -> host = "uninit"
       [] i = 6 -> /\ cfg.characteristics # <<>>
                   /\ cfg.characteristic_count # 0
                   /\ cfg.characteristic_count <= MAX_CHARACTERISTICS
       [] OTHER -> TRUE

\* number of leading steps of the bring-up that succeed
InitReached(cfg, fault) ==
  LET bad == { i \in 1..12 : ~InitStepOk(i, cfg, fault) }
  IN IF bad = {} THEN 12 ELSE (CHOOSE i \in bad : \A j \in bad : i <= j) - 1

InitStepArg(i) ==
  IF i = 11 THEN [len |-> ble_gap_config_adv(DeviceNameLen)]
  ELSE IF i = 12 THEN [len |-> ble_gap_init_scan_rsp_data(DeviceNameLen)]
  ELSE NoArg

\* a bring-up that goes on after a failed step
InitStepCallsAll(from, to, k) ==
  SelectSeq([j \in 1..(to - from + 1) |->
               Call(InitSteps[from + j - 1], from + j - 1 # k + 1, InitStepArg(from + j - 1))],
            LAMBDA c : c.api # "ble_gatts_init_args")

\* the calls of steps from..to when k steps succeeded: a step is attempted
\* when all before it succeeded
InitStepCalls(from, to, k) ==
  LET n == Min(to, k + 1)
      all == [j \in 1..(IF n >= from THEN n - from + 1 ELSE 0) |->
                Call(InitSteps[from + j - 1], from + j - 1 <= k, InitStepArg(from + j - 1))]
  IN SelectSeq(all, LAMBDA c : c.api # "ble_gatts_init_args")

InitCalls(k, mtuFail) ==
  <<Call("nvm_init", TRUE, NoArg)>>
    \o InitStepCalls(1, 8, k)
    \o (IF k >= 8 THEN <<Call("esp_ble_gatt_set_local_mtu", ~mtuFail, [mtu |-> MAX_MTU_SIZE])>>
        ELSE <<>>)
    \o InitStepCalls(9, 12, k)

\* ESP_ERROR_CHECK failed: abort() restarts the chip, every static is
\* initialised again and the stack is down
Reboot ==
  /\ s_initialized' = FALSE
  /\ s_config' = NullConfig
  /\ s_characteristics' = <<>>
  /\ s_char_count' = 0
  /\ s_service_uuid' = 0
  /\ s_service_handle' = 0
  /\ s_gatts_if' = ESP_GATT_IF_NONE
  /\ s_conn_id' = 0
  /\ s_is_connected' = FALSE
  /\ s_char_handles' = EmptyTable
  /\ s_registered_chars' = 0
  /\ s_pending_descr_char' = 0
  /\ adv_config_done' = 0
  /\ s_raw_adv_data' = FALSE
  /\ s_adv_params' = FALSE
  /\ s_raw_scan_rsp_data' = FALSE
  /\ ctrl' = "idle"
  /\ host' = "uninit"
  /\ gattsCb' = FALSE
  /\ gapCb' = FALSE
  /\ gattsQ' = <<>>
  /\ gapQ' = <<>>
  /\ advertising' = FALSE
  /\ linkUp' = FALSE
  /\ nextHandle' = StackFirstHandle
  /\ issued' = <<>>
  /\ delivered' = <<>>
  /\ connEvt' = "none"
  /\ world' = world

\* ble_gatts_init, from its argument check on, when k steps succeeded
GattsInit(cfg, k) ==
  /\ IF k >= 6
       THEN /\ s_characteristics' = cfg.characteristics
            /\ s_char_count' = cfg.characteristic_count
            /\ s_service_uuid' = cfg.service_uuid
            /\ s_registered_chars' = 0
            /\ s_char_handles' = EmptyTable
            /\ issued' = <<>>
            /\ delivered' = <<>>
            /\ connEvt' = connEvt
       ELSE UNCHANGED <<s_characteristics, s_char_count, s_service_uuid,
                        s_registered_chars, s_char_handles, histVars>>
  /\ gattsCb' = (k >= 7 \/ gattsCb)
  /\ gattsQ' = IF k >= 8 THEN Append(gattsQ, [evt |-> "REG", handle |-> 0]) ELSE gattsQ
  /\ UNCHANGED <<s_service_handle, s_gatts_if, s_conn_id, s_is_connected,
                 s_pending_descr_char>>

\* ble_gap_init when k steps succeeded
GapInit(k) ==
  /\ gapCb' = (k >= 9 \/ gapCb)
  /\ s_raw_adv_data' = (k >= 10 \/ s_raw_adv_data)
  /\ s_adv_params' = ((k >= 10 /\ ~s_raw_adv_data) \/ s_adv_params)
  /\ s_raw_scan_rsp_data' = (k >= 11 \/ s_raw_scan_rsp_data)
  /\ gapQ' = gapQ \o (IF k >= 11 THEN <<"ADV_DATA_RAW_SET_COMPLETE">> ELSE <<>>)
                  \o (IF k >= 12 THEN <<"SCAN_RSP_DATA_SET_COMPLETE">> ELSE <<>>)
  /\ adv_config_done' =
       IF k >= 12 THEN OrBits(adv_config_done, ADV_CONFIG_FLAG + SCAN_RSP_CONFIG_FLAG, 0)
       ELSE adv_config_done

\* the bring-up: everything after the configuration checks
BringUpWith(cfg, fault, mtuFail) ==
  LET k == InitReached(cfg, fault)
  IN /\ calls' = InitCalls(k, mtuFail)
     /\ lastArg' = [CfgFacts(cfg) EXCEPT
                      !.fault = IF k < 12 /\ InitSteps[k + 1] = fault THEN fault ELSE "none"]
     /\ IF k = 0
          THEN /\ Reboot
               /\ lastRet' = NoRet
          ELSE /\ s_config' = cfg
               /\ ctrl' = (IF k >= 3 THEN "enabled" ELSE IF k >= 2 THEN "inited" ELSE ctrl)
               /\ host' = (IF k >= 5 THEN "enabled" ELSE IF k >= 4 THEN "inited" ELSE host)
               /\ nextHandle' = (IF k >= 4 THEN StackFirstHandle ELSE nextHandle)
               /\ GattsInit(cfg, k)
               /\ GapInit(k)
               /\ s_initialized' = (k = 12)
               /\ lastRet' = (IF k = 12 THEN BLE_SUCCESS ELSE BLE_GENERIC_ERROR)
               /\ UNCHANGED <<advertising, linkUp, world>>

\* the stack's answers are inputs: which call fails, and whether the MTU call does
BringUp(cfg) ==
  \E fault \in InitFaults :
    \E mtuFail \in (IF InitReached(cfg, fault) >= 8 THEN BOOLEAN ELSE {FALSE}) :
      BringUpWith(cfg, fault, mtuFail)

\* the configuration checks without the test of the device name
ConfigCheckNoName(cfg) ==
  IF cfg.isNull THEN BLE_INVALID_CONFIG
  ELSE IF cfg.characteristics = <<>> \/ cfg.characteristic_count = 0 THEN BLE_INVALID_CHARS
  ELSE BLE_SUCCESS

\* the configuration checks without the test of the array pointer
ConfigCheckCountOnly(cfg) ==
  IF cfg.isNull \/ ~cfg.device_name THEN BLE_INVALID_CONFIG
  ELSE IF cfg.characteristic_count = 0 THEN BLE_INVALID_CHARS
  ELSE BLE_SUCCESS

\* the configuration checks of ble_server_init, as the code it returns
ConfigCheck(cfg) ==
  IF cfg.isNull \/ ~cfg.device_name THEN BLE_INVALID_CONFIG
  ELSE IF cfg.characteristics = <<>> \/ cfg.characteristic_count = 0 THEN BLE_INVALID_CHARS
  ELSE BLE_SUCCESS

\* an early return of ble_server_init
InitRefused(code, arg) ==
  /\ lastRet' = code
  /\ lastArg' = arg
  /\ calls' = <<>>
  /\ UNCHANGED <<bleVars, gattsVars, gapVars, stackVars, histVars, world>>

\* ble_server_init without its s_initialized guard
ble_server_init_unguarded(cfg) ==
  /\ lastOp' = "init"
  /\ IF ConfigCheck(cfg) # BLE_SUCCESS
       THEN InitRefused(ConfigCheck(cfg), CfgFacts(cfg))
       ELSE BringUp(cfg)

ble_server_init(cfg) ==
  /\ lastOp' = "init"
  /\ IF s_initialized
       THEN InitRefused(BLE_ALREADY_INITIALIZED, [kind |-> "unread"])
     ELSE IF ConfigCheck(cfg) # BLE_SUCCESS
       THEN InitRefused(ConfigCheck(cfg), CfgFacts(cfg))
     ELSE BringUp(cfg)

\* ------------------------------------------------------------------------
\* The stack's reaction to the requests a handler issued
\* ------------------------------------------------------------------------
\* each asynchronous GATT request is queued for completion in issue order;
\* the stack assigns attribute handles in increasing order: one to a service,
\* two (declaration, value) to a characteristic, one to a descriptor
RECURSIVE StackAccept(_, _, _)
StackAccept(cs, q, nh) ==
  IF cs = <<>> THEN [q |-> q, nh |-> nh]
  ELSE LET c == Head(cs)
       IN IF c.api = "esp_ble_gatts_create_service"
            THEN StackAccept(Tail(cs), Append(q, [evt |-> "CREATE", handle |-> nh]), nh + 1)
          ELSE IF c.api = "esp_ble_gatts_start_service"
            THEN StackAccept(Tail(cs), Append(q, [evt |-> "START", handle |-> 0]), nh)
          ELSE IF c.api = "esp_ble_gatts_add_char"
            THEN StackAccept(Tail(cs), Append(q, [evt |-> "ADD_CHAR", handle |-> nh + 1]), nh + 2)
          ELSE IF c.api = "esp_ble_gatts_add_char_descr"
            THEN StackAccept(Tail(cs), Append(q, [evt |-> "ADD_CHAR_DESCR", handle |-> nh]), nh + 1)
          ELSE StackAccept(Tail(cs), q, nh)

IsAddCall(c) == c.api \in {"esp_ble_gatts_add_char", "esp_ble_gatts_add_char_descr"}

StartsAdv(cs) == \E i \in 1..Len(cs) : cs[i].api = "esp_ble_gap_start_advertising" /\ cs[i].ok

\* the GATT server callback runs only while the host stack is enabled and
\* esp_ble_gatts_register_callback has registered it
GattsUp == host = "enabled" /\ gattsCb

GapUp == host = "enabled" /\ gapCb

\* ------------------------------------------------------------------------
\* src/ble-gatts.c: gatts_event_handler, the registration events
\* ------------------------------------------------------------------------
\* a handler that asks for the entries i and i + 1 at once
NextCharCallsEager(svc, i) ==
  (IF i < s_char_count THEN <<AddCharCall(svc, CharAt(s_characteristics, i))>> ELSE <<>>)
    \o (IF i + 1 < s_char_count THEN <<AddCharCall(svc, CharAt(s_characteristics, i + 1))>>
        ELSE <<>>)

\* the add-characteristic request for index i, none when i is past the list
NextCharCalls(svc, i) ==
  IF i < s_char_count THEN <<AddCharCall(svc, CharAt(s_characteristics, i))>> ELSE <<>>

\* common frame of a GATT event handler that issued the calls cs; q is what
\* the stack still has to deliver and ds the completions handled so far
GattsHandledFrom(name, arg, cs, q, ds) ==
  /\ lastOp' = name
  /\ lastArg' = arg
  /\ lastRet' = NoRet
  /\ calls' = cs
  /\ issued' = issued \o SelectSeq(cs, IsAddCall)
  /\ delivered' = ds
  /\ connEvt' = connEvt
  /\ LET r == StackAccept(cs, q, nextHandle)
     IN gattsQ' = r.q /\ nextHandle' = r.nh
  /\ UNCHANGED <<bleVars, gapVars, ctrl, host, gattsCb, gapCb, gapQ, advertising, linkUp, world>>

\* the handler of the event at the head of the stack's queue
GattsHandled(name, arg, cs) ==
  GattsHandledFrom(name, arg, cs, Tail(gattsQ),
    Append(delivered, [evt |-> name, ok |-> arg.ok, handle |-> arg.handle]))

\* a handler that goes on whatever the status of the event
StatusFailedNever(ok) == FALSE

\* param->reg.status != ESP_GATT_OK, and the same test of the create,
\* add_char and add_char_descr events
StatusFailed(ok) == ~ok

EvtArg(ok, handle) == [kind |-> "event", ok |-> ok, handle |-> handle]

\* ESP_GATTS_REG_EVT
RegEvt(ok) ==
  /\ GattsUp /\ gattsQ # <<>> /\ Head(gattsQ).evt = "REG"
  /\ IF StatusFailed(ok)
       THEN /\ GattsHandled("REG_EVT", EvtArg(ok, 0), <<>>)
            /\ UNCHANGED gattsVars
       ELSE /\ s_gatts_if' = StackGattsIf
            /\ GattsHandled("REG_EVT", EvtArg(ok, 0),
                 <<Call("esp_ble_gatts_create_service", TRUE,
                        [gatts_if |-> StackGattsIf, uuid |-> s_service_uuid,
                         num_handles |-> CALC_NUM_HANDLES(s_char_count) % 65536])>>)
            /\ UNCHANGED <<s_characteristics, s_char_count, s_service_uuid, s_service_handle,
                           s_conn_id, s_is_connected, s_char_handles,
                           s_registered_chars, s_pending_descr_char>>

\* ESP_GATTS_CREATE_EVT
CreateEvt(ok) ==
  /\ GattsUp /\ gattsQ # <<>> /\ Head(gattsQ).evt = "CREATE"
  /\ LET h == Head(gattsQ).handle
     IN IF StatusFailed(ok)
          THEN /\ GattsHandled("CREATE_EVT", EvtArg(ok, 0), <<>>)
               /\ UNCHANGED gattsVars
          ELSE /\ s_service_handle' = h
               /\ GattsHandled("CREATE_EVT", EvtArg(ok, h),
                    <<Call("esp_ble_gatts_start_service", TRUE, [service_handle |-> h])>>
                      \o (IF s_char_count > 0 THEN NextCharCalls(h, 0) ELSE <<>>))
               /\ UNCHANGED <<s_characteristics, s_char_count, s_service_uuid, s_gatts_if,
                              s_conn_id, s_is_connected, s_char_handles,
                              s_registered_chars, s_pending_descr_char>>

\* a handler that never adds the user description descriptor
NoDescription(ch) == FALSE

HasDescription(ch) == ch.description # <<>>

\* a handler that stores the delivered handle in the CCCD slot
RecordValueHandleAsCccd(table, i, h) ==
  [table EXCEPT ![i].cccd_handle = h, ![i].def = i]

\* s_char_handles[i].char_handle = attr_handle; s_char_handles[i].def = &s_characteristics[i]
RecordValueHandle(table, i, h) ==
  [table EXCEPT ![i].char_handle = h, ![i].def = i]

\* a handler that stores every descriptor handle in entry 0
RecordDescrHandleFirst(table, p, h) ==
  [table EXCEPT ![0].descr_handle = h]

\* s_char_handles[s_pending_descr_char].descr_handle = attr_handle
RecordDescrHandle(table, p, h) ==
  [table EXCEPT ![p].descr_handle = h]

\* ESP_GATTS_ADD_CHAR_EVT with status ok and attribute handle h
AddCharHandled(ok, h, q, ds) ==
  LET i == s_registered_chars
      rec(hh) == ds \o <<[evt |-> "ADD_CHAR_EVT", ok |-> ok, handle |-> hh]>>
  IN IF StatusFailed(ok)
       THEN /\ GattsHandledFrom("ADD_CHAR_EVT", EvtArg(ok, 0), <<>>, q, rec(0))
            /\ UNCHANGED gattsVars
       ELSE IF ~(i < s_char_count)
       THEN /\ GattsHandledFrom("ADD_CHAR_EVT", EvtArg(ok, h), <<>>, q, rec(h))
            /\ UNCHANGED gattsVars
       ELSE /\ s_char_handles' = RecordValueHandle(s_char_handles, i, h)
            /\ IF HasDescription(CharAt(s_characteristics, i))
                 THEN /\ s_pending_descr_char' = i
                      /\ s_registered_chars' = i
                      /\ GattsHandledFrom("ADD_CHAR_EVT", EvtArg(ok, h),
                           <<AddDescrCall(s_service_handle, CharAt(s_characteristics, i))>>,
                           q, rec(h))
                 ELSE /\ s_pending_descr_char' = s_pending_descr_char
                      /\ s_registered_chars' = i + 1
                      /\ GattsHandledFrom("ADD_CHAR_EVT", EvtArg(ok, h),
                           NextCharCalls(s_service_handle, i + 1), q, rec(h))
            /\ UNCHANGED <<s_characteristics, s_char_count, s_service_uuid,
                           s_service_handle, s_gatts_if, s_conn_id, s_is_connected>>

\* the stack delivers the completion of the add-characteristic request
AddCharEvt(ok) ==
  /\ GattsUp /\ gattsQ # <<>> /\ Head(gattsQ).evt = "ADD_CHAR"
  /\ AddCharHandled(ok, Head(gattsQ).handle, Tail(gattsQ), delivered)

\* ESP_GATTS_ADD_CHAR_DESCR_EVT with status ok and attribute handle h
AddCharDescrHandled(ok, h, q, ds) ==
  LET p == s_pending_descr_char
      rec(hh) == ds \o <<[evt |-> "ADD_CHAR_DESCR_EVT", ok |-> ok, handle |-> hh]>>
  IN IF StatusFailed(ok)
       THEN /\ GattsHandledFrom("ADD_CHAR_DESCR_EVT", EvtArg(ok, 0), <<>>, q, rec(0))
            /\ UNCHANGED gattsVars
       ELSE IF ~(p < s_char_count)
       THEN /\ GattsHandledFrom("ADD_CHAR_DESCR_EVT", EvtArg(ok, h), <<>>, q, rec(h))
            /\ UNCHANGED gattsVars
       ELSE /\ s_char_handles' = RecordDescrHandle(s_char_handles, p, h)
            /\ s_registered_chars' = s_registered_chars + 1
            /\ GattsHandledFrom("ADD_CHAR_DESCR_EVT", EvtArg(ok, h),
                 NextCharCalls(s_service_handle, s_registered_chars + 1), q, rec(h))
            /\ UNCHANGED <<s_characteristics, s_char_count, s_service_uuid,
                           s_service_handle, s_gatts_if, s_conn_id, s_is_connected,
                           s_pending_descr_char>>

\* the stack delivers the completion of the add-descriptor request
AddCharDescrEvt(ok) ==
  /\ GattsUp /\ gattsQ # <<>> /\ Head(gattsQ).evt = "ADD_CHAR_DESCR"
  /\ AddCharDescrHandled(ok, Head(gattsQ).handle, Tail(gattsQ), delivered)

\* ESP_GATTS_START_EVT: logged only
StartEvt ==
  /\ GattsUp /\ gattsQ # <<>> /\ Head(gattsQ).evt = "START"
  /\ GattsHandled("START_EVT", EvtArg(TRUE, 0), <<>>)
  /\ UNCHANGED gattsVars

\* ------------------------------------------------------------------------
\* src/ble-gatts.c: gatts_event_handler, the connection events
\* ------------------------------------------------------------------------
ConnIds == 1..MaxConnId

\* the address of the peer behind a connection identifier
PeerOf(cid) == 160 + cid

\* a call of the GAP module (ble-gap.h) by the GATT event handler
GapRequest(fn, arg) == [fn |-> fn, arg |-> arg]

\* a connect handler that asks for the update with the intervals exchanged
ConnectGapRequestsSwapped(bda) ==
  <<GapRequest("ble_gap_update_connection_params",
               [bda |-> bda, min_interval |-> 64, max_interval |-> 32,
                latency |-> 0, timeout |-> 400])>>

\* ble_gap_update_connection_params(param->connect.remote_bda, 0x20, 0x40, 0, 400)
ConnectGapRequests(bda) ==
  <<GapRequest("ble_gap_update_connection_params",
               [bda |-> bda, min_interval |-> 32, max_interval |-> 64,
                latency |-> 0, timeout |-> 400])>>

\* ble_gap_update_connection_params: the stack call of a request
UpdateConnParamsCalls(reqs, ok) ==
  [j \in 1..Len(reqs) |->
     Call("esp_ble_gap_update_conn_params", ok,
          [bda |-> reqs[j].arg.bda, min_int |-> reqs[j].arg.min_interval,
           max_int |-> reqs[j].arg.max_interval, latency |-> reqs[j].arg.latency,
           timeout |-> reqs[j].arg.timeout])]

\* a disconnect handler that restarts the advertising twice
DisconnectGapRequestsTwice(was_connected) ==
  <<GapRequest("ble_gap_start_adv", NoArg), GapRequest("ble_gap_start_adv", NoArg)>>

\* ble_gap_start_adv()
DisconnectGapRequests(was_connected) == <<GapRequest("ble_gap_start_adv", NoArg)>>

\* ESP_GATTS_CONNECT_EVT from a peer that found the advertising server; the
\* stack stops advertising when the link is up
ConnectEvt(cid, ok) ==
  /\ GattsUp /\ advertising /\ ~linkUp
  /\ s_conn_id' = cid
  /\ s_is_connected' = TRUE
  /\ lastOp' = "CONNECT_EVT"
  /\ lastArg' = [kind |-> "connect", conn_id |-> cid, remote_bda |-> PeerOf(cid),
                 gap |-> ConnectGapRequests(PeerOf(cid))]
  /\ lastRet' = NoRet
  /\ calls' = UpdateConnParamsCalls(lastArg'.gap, ok)
  /\ linkUp' = TRUE
  /\ advertising' = FALSE
  /\ connEvt' = "connect"
  /\ UNCHANGED <<bleVars, gapVars, ctrl, host, gattsCb, gapCb, gattsQ, gapQ, nextHandle,
                 issued, delivered, world, s_characteristics, s_char_count, s_service_uuid, s_service_handle,
                 s_gatts_if, s_char_handles, s_registered_chars, s_pending_descr_char>>

\* ESP_GATTS_DISCONNECT_EVT
DisconnectEvt ==
  /\ GattsUp /\ linkUp
  /\ s_is_connected' = FALSE
  /\ lastOp' = "DISCONNECT_EVT"
  /\ lastArg' = [kind |-> "disconnect", gap |-> DisconnectGapRequests(s_is_connected)]
  /\ lastRet' = NoRet
  /\ calls' = IF lastArg'.gap = <<>> THEN <<>>
              ELSE StartAdvCalls(s_raw_adv_data, s_adv_params)
  /\ linkUp' = FALSE
  /\ advertising' = (advertising \/ StartsAdv(calls'))
  /\ connEvt' = "disconnect"
  /\ UNCHANGED <<bleVars, gapVars, ctrl, host, gattsCb, gapCb, gattsQ, gapQ, nextHandle,
                 issued, delivered, world, s_characteristics, s_char_count, s_service_uuid, s_service_handle,
                 s_gatts_if, s_conn_id, s_char_handles, s_registered_chars,
                 s_pending_descr_char>>

\* ------------------------------------------------------------------------
\* src/ble-gatts.c: handle_char_read, handle_char_write
\* ------------------------------------------------------------------------
\* attribute handles a peer request may carry
PeerHandles == {0} \cup (StackFirstHandle..(StackFirstHandle + MaxHandleSpan))

ReadOffsets == 0..MaxOffset

\* what a read callback returns: a negative error, a byte count, or a count
\* past the max_len it was handed (the int is not checked by the caller)
ReadResults == ((-1)..MaxReadLen) \cup {ESP_GATT_MAX_ATTR_LEN + 1}

\* what a write callback returns: an enumerator of ble_char_error_t or not
WriteResults == (-1)..MaxWriteResult

WriteValues == { <<7>>, <<1, 2>> }

\* a NULL response pointer
NoRsp == [len |-> 0, none |-> TRUE]

\* esp_ble_gatts_send_response(gatts_if, conn_id, trans_id, status, rsp)
SendResponse(status, rsp) ==
  Call("esp_ble_gatts_send_response", TRUE,
       [gatts_if |-> StackGattsIf, conn_id |-> s_conn_id, trans_id |-> EvtTransId,
        status |-> status, rsp |-> rsp])

\* outcome of a dispatch: the path taken, the callbacks invoked, the calls
Answered(path, invoked, cs) ==
  [path |-> path, invoked |-> invoked, calls |-> cs, fatal |-> FALSE]

\* ch->def is NULL and is dereferenced: the load from address 0 panics
NullDeref == [path |-> "null def", invoked |-> <<>>, calls |-> <<>>, fatal |-> TRUE]

\* a check of the wrong callback, and of either callback
ReadPermittedByWrite(ch) == ch.write

WritePermittedByAny(ch) == ch.read \/ ch.write

\* ch->def->read != NULL, ch->def->write != NULL
ReadPermitted(ch) == ch.read

WritePermitted(ch) == ch.write

\* a read callback whose empty answer is taken for an error
ReadFailedOrEmpty(bytes_read) == bytes_read <= 0

\* bytes_read < 0
ReadFailed(bytes_read) == bytes_read < 0

\* a descriptor read that ignores the offset of the request
DescrSliceFromStart(descr, offset) ==
  [len |-> Min(Len(descr), ESP_GATT_MAX_ATTR_LEN), offset |-> offset,
   value |-> SubSeq(descr, 1, Min(Len(descr), ESP_GATT_MAX_ATTR_LEN))]

\* the part of the description a descriptor read at offset answers with:
\* rsp.attr_value.len, .offset and .value
DescrSlice(descr, offset) ==
  LET total_len == Len(descr)
      to_send == IF offset >= total_len THEN 0
                 ELSE Min(total_len - offset, ESP_GATT_MAX_ATTR_LEN)
  IN [len |-> to_send,
      offset |-> IF offset >= total_len THEN 0 ELSE offset,
      value |-> SubSeq(descr, offset + 1, offset + to_send)]

handle_char_read(handle, offset, cbRet) ==
  LET d == find_char_by_descr_handle(handle)
      c == find_char_by_handle(handle)
  IN IF d # NoDef
       THEN IF s_char_handles[d].def = NoDef THEN NullDeref
            ELSE LET descr == CharAt(s_characteristics, s_char_handles[d].def).description
                     slice == DescrSlice(descr, offset)
                 IN Answered("descriptor", <<>>,
                      <<SendResponse(ESP_GATT_OK,
                          [handle |-> handle, len |-> slice.len,
                           offset |-> slice.offset, value |-> slice.value])>>)
     ELSE IF c = NoDef
       THEN Answered("unknown", <<>>, <<SendResponse(ESP_GATT_INVALID_HANDLE, NoRsp)>>)
     ELSE IF s_char_handles[c].def = NoDef THEN NullDeref
     ELSE LET def == s_char_handles[c].def
              ch == CharAt(s_characteristics, def)
              cb == <<[index |-> def, fn |-> "read", max_len |-> ESP_GATT_MAX_ATTR_LEN]>>
          IN IF ~ReadPermitted(ch)
               THEN Answered("not permitted", <<>>,
                      <<SendResponse(ESP_GATT_READ_NOT_PERMIT, NoRsp)>>)
             ELSE IF ReadFailed(cbRet)
               THEN Answered("callback", cb, <<SendResponse(ESP_GATT_ERROR, NoRsp)>>)
             ELSE Answered("callback", cb,
                    <<SendResponse(ESP_GATT_OK,
                        [handle |-> handle, len |-> cbRet % 65536, offset |-> 0,
                         value |-> [fn |-> "read", index |-> def, bytes |-> cbRet]])>>)

\* a switch with the statuses of ErrSize and ErrValue exchanged
WriteStatusSwapped(result) ==
  CASE result = BLE_CHAR_OK -> ESP_GATT_OK
    [] result = BLE_CHAR_ERR_SIZE -> ESP_GATT_OUT_OF_RANGE
    [] result = BLE_CHAR_ERR_VALUE -> ESP_GATT_INVALID_ATTR_LEN
    [] result = BLE_CHAR_ERR_READONLY -> ESP_GATT_WRITE_NOT_PERMIT
    [] result = BLE_CHAR_ERR_BUSY -> ESP_GATT_BUSY
    [] OTHER -> ESP_GATT_ERROR

\* the switch of handle_char_write
WriteStatus(result) ==
  CASE result = BLE_CHAR_OK -> ESP_GATT_OK
    [] result = BLE_CHAR_ERR_SIZE -> ESP_GATT_INVALID_ATTR_LEN
    [] result = BLE_CHAR_ERR_VALUE -> ESP_GATT_OUT_OF_RANGE
    [] result = BLE_CHAR_ERR_READONLY -> ESP_GATT_WRITE_NOT_PERMIT
    [] result = BLE_CHAR_ERR_BUSY -> ESP_GATT_BUSY
    [] OTHER -> ESP_GATT_ERROR

handle_char_write(handle, value, need_rsp, cbRet) ==
  LET c == find_char_by_handle(handle)
  IN IF c = NoDef
       THEN Answered("unknown", <<>>, <<SendResponse(ESP_GATT_INVALID_HANDLE, NoRsp)>>)
     ELSE IF s_char_handles[c].def = NoDef THEN NullDeref
     ELSE LET def == s_char_handles[c].def
              ch == CharAt(s_characteristics, def)
          IN IF ~WritePermitted(ch)
               THEN Answered("not permitted", <<>>,
                      <<SendResponse(ESP_GATT_WRITE_NOT_PERMIT, NoRsp)>>)
             ELSE Answered("callback",
                    <<[index |-> def, fn |-> "write", in_data |-> value, len |-> Len(value)]>>,
                    IF need_rsp THEN <<SendResponse(WriteStatus(cbRet), NoRsp)>> ELSE <<>>)

\* common frame of ESP_GATTS_READ_EVT and ESP_GATTS_WRITE_EVT: the handlers
\* write no static; a panic restarts the chip
DispatchFrame(name, arg, r, restart) ==
  /\ lastOp' = name
  /\ lastArg' = [kind |-> "request", handle |-> arg.handle, offset |-> arg.offset,
                 value |-> arg.value, need_rsp |-> arg.need_rsp, cbRet |-> arg.cbRet,
                 path |-> r.path, invoked |-> r.invoked]
  /\ lastRet' = NoRet
  /\ calls' = r.calls
  /\ IF restart
       THEN Reboot
       ELSE UNCHANGED <<bleVars, gattsVars, gapVars, stackVars, histVars, world>>

\* a handler that gives up on a generic error status
DispatchedEscalating(name, arg, r) ==
  DispatchFrame(name, arg, r,
    r.fatal \/ \E i \in 1..Len(r.calls) : r.calls[i].arg.status = ESP_GATT_ERROR)

Dispatched(name, arg, r) == DispatchFrame(name, arg, r, r.fatal)

\* the inputs of a request that its dispatch path reads
ReadInputs(handle) ==
  LET probe == handle_char_read(handle, 0, 0)
  IN IF probe.path = "descriptor" THEN ReadOffsets \X {0}
     ELSE IF probe.path = "callback" THEN {0} \X ReadResults
     ELSE {<<0, 0>>}

WriteInputs(handle) ==
  IF handle_char_write(handle, <<>>, TRUE, 0).path = "callback"
    THEN (WriteValues \X {BLE_CHAR_OK}) \cup ({<<7>>} \X WriteResults)
    ELSE {<<(<<>>), 0>>}

\* ESP_GATTS_READ_EVT: a connected peer reads an attribute
ReadEvt(handle, offset, cbRet) ==
  /\ GattsUp /\ linkUp
  /\ Dispatched("READ_EVT",
       [handle |-> handle, offset |-> offset, value |-> <<>>, need_rsp |-> TRUE,
        cbRet |-> cbRet],
       handle_char_read(handle, offset, cbRet))

\* ESP_GATTS_WRITE_EVT: a connected peer writes an attribute
WriteEvt(handle, value, need_rsp, cbRet) ==
  /\ GattsUp /\ linkUp
  /\ Dispatched("WRITE_EVT",
       [handle |-> handle, offset |-> 0, value |-> value, need_rsp |-> need_rsp,
        cbRet |-> cbRet],
       handle_char_write(handle, value, need_rsp, cbRet))

\* src/ble.c: ble_server_is_connected
ble_server_is_connected ==
  /\ lastOp' = "is_connected"
  /\ lastArg' = NoArg
  /\ lastRet' = (IF ble_gatts_is_connected THEN 1 ELSE 0)
  /\ calls' = <<>>
  /\ UNCHANGED <<bleVars, gattsVars, gapVars, stackVars, histVars, world>>

\* ------------------------------------------------------------------------
\* ble-gap.c: gap_event_handler
\* ------------------------------------------------------------------------
GapHandled(name, done) ==
  /\ lastOp' = name
  /\ lastArg' = NoArg
  /\ lastRet' = NoRet
  /\ adv_config_done' = done
  /\ gapQ' = Tail(gapQ)
  /\ advertising' = (advertising \/ StartsAdv(calls'))
  /\ UNCHANGED <<bleVars, gattsVars, s_raw_adv_data, s_adv_params, s_raw_scan_rsp_data,
                 ctrl, host, gattsCb, gapCb, gattsQ, linkUp, nextHandle, histVars, world>>

\* ESP_GAP_BLE_ADV_DATA_RAW_SET_COMPLETE_EVT
AdvDataSetEvt ==
  /\ GapUp /\ gapQ # <<>> /\ Head(gapQ) = "ADV_DATA_RAW_SET_COMPLETE"
  /\ calls' = StartAdvCalls(s_raw_adv_data, s_adv_params)
  /\ GapHandled("ADV_DATA_RAW_SET_COMPLETE_EVT", AndNotBits(adv_config_done, ADV_CONFIG_FLAG, 0))

\* ESP_GAP_BLE_SCAN_RSP_DATA_SET_COMPLETE_EVT
ScanRspSetEvt ==
  /\ GapUp /\ gapQ # <<>> /\ Head(gapQ) = "SCAN_RSP_DATA_SET_COMPLETE"
  /\ LET done == AndNotBits(adv_config_done, SCAN_RSP_CONFIG_FLAG, 0)
     IN /\ calls' = (IF done = 0 THEN StartAdvCalls(s_raw_adv_data, s_adv_params) ELSE <<>>)
        /\ GapHandled("SCAN_RSP_DATA_SET_COMPLETE_EVT", done)

\* ------------------------------------------------------------------------
\* src/ble.c: ble_server_stop
\* ------------------------------------------------------------------------
StopSteps ==
  << "esp_ble_gap_stop_advertising", "esp_bluedroid_disable", "esp_bluedroid_deinit",
     "esp_bt_controller_disable", "esp_bt_controller_deinit" >>

StopFaults ==
  IF world = "faulty" THEN {"none"} \cup { StopSteps[i] : i \in 1..5 } ELSE {"none"}

\* ble_gap_stop_adv succeeds: the stack accepts it only while the host is enabled
StopAdvOk(fault) == host = "enabled" /\ fault # StopSteps[1]

\* step i of 2..5 succeeds when it is reached (all steps from 2 before it did)
StopStepOk(i, fault) ==
  /\ fault # StopSteps[i]
  /\ CASE i = 2 -> host = "enabled"
       [] i = 3 -> host \in {"enabled", "inited"}
       [] i = 4 -> ctrl = "enabled"
       [] OTHER -> TRUE

\* number of the last step that succeeded, 1 when esp_bluedroid_disable failed
StopReached(fault) ==
  LET bad == { i \in 2..5 : ~StopStepOk(i, fault) }
  IN IF bad = {} THEN 5 ELSE (CHOOSE i \in bad : \A j \in bad : i <= j) - 1

\* the host stack closes the link while it is disabled; it may deliver the
\* disconnect event to gatts_event_handler before esp_bluedroid_disable returns
StopDisconnects(k, discEvt) == k >= 2 /\ linkUp /\ gattsCb /\ discEvt

\* a teardown that disables the controller before the host stack
StopCallsControllerFirst(fault, k, discEvt) ==
  <<Call(StopSteps[1], StopAdvOk(fault), NoArg),
    Call(StopSteps[4], TRUE, NoArg), Call(StopSteps[5], TRUE, NoArg),
    Call(StopSteps[2], k >= 2, NoArg), Call(StopSteps[3], k >= 3, NoArg)>>

StopCalls(fault, k, discEvt) ==
  LET freed == StopAdvOk(fault)
  IN <<Call(StopSteps[1], freed, NoArg)>>
       \o <<Call(StopSteps[2], k >= 2, NoArg)>>
       \o (IF StopDisconnects(k, discEvt)
             THEN StartAdvCalls(s_raw_adv_data /\ ~freed, s_adv_params /\ ~(freed /\ s_raw_adv_data))
             ELSE <<>>)
       \o [j \in 1..(Min(k + 1, 5) - 2) |-> Call(StopSteps[j + 2], j + 2 <= k, NoArg)]

\* ble_server_stop past its s_initialized guard
Teardown ==
  \E fault \in StopFaults, discEvt \in (IF linkUp /\ gattsCb THEN BOOLEAN ELSE {FALSE}) :
    LET k == StopReached(fault)
        freed == StopAdvOk(fault)
    IN /\ calls' = StopCalls(fault, k, discEvt)
       /\ lastArg' = [kind |-> "stop",
                      fault |-> IF fault = StopSteps[1] \/ (k < 5 /\ StopSteps[k + 1] = fault)
                                THEN fault ELSE "none",
                      discEvt |-> StopDisconnects(k, discEvt)]
       \* ble_gap_stop_adv: ble_gap_free_adv_data, ble_free_scan_rsp_data
       /\ s_raw_adv_data' = (s_raw_adv_data /\ ~freed)
       /\ s_adv_params' = (s_adv_params /\ ~(freed /\ s_raw_adv_data))
       /\ s_raw_scan_rsp_data' = (s_raw_scan_rsp_data /\ ~freed)
       /\ UNCHANGED adv_config_done
       \* the stack
       /\ host' = (IF k >= 3 THEN "uninit" ELSE IF k >= 2 THEN "inited" ELSE host)
       /\ ctrl' = (IF k >= 5 THEN "idle" ELSE IF k >= 4 THEN "inited" ELSE ctrl)
       /\ gattsQ' = (IF k >= 2 THEN <<>> ELSE gattsQ)
       /\ gapQ' = (IF k >= 2 THEN <<>> ELSE gapQ)
       /\ linkUp' = (linkUp /\ k < 2)
       /\ advertising' = (advertising /\ ~freed /\ k < 2)
       /\ gattsCb' = (gattsCb /\ k < 3)
       /\ gapCb' = (gapCb /\ k < 3)
       /\ UNCHANGED nextHandle
       \* the disconnect event delivered during esp_bluedroid_disable
       /\ s_is_connected' = (s_is_connected /\ ~StopDisconnects(k, discEvt))
       /\ connEvt' = (IF StopDisconnects(k, discEvt) THEN "disconnect" ELSE connEvt)
       /\ UNCHANGED <<s_characteristics, s_char_count, s_service_uuid,
                      s_service_handle, s_gatts_if, s_conn_id, s_char_handles,
                      s_registered_chars, s_pending_descr_char, issued, delivered, world>>
       /\ s_initialized' = (k < 5)
       /\ s_config' = (IF k = 5 THEN NullConfig ELSE s_config)
       /\ lastRet' = (IF k = 5 THEN BLE_SUCCESS ELSE BLE_GENERIC_ERROR)

\* ble_server_stop without its s_initialized guard
ble_server_stop_unguarded ==
  /\ lastOp' = "stop"
  /\ Teardown

ble_server_stop ==
  /\ lastOp' = "stop"
  /\ IF ~s_initialized
       THEN /\ lastRet' = BLE_NOT_INITIALIZED
            /\ lastArg' = [kind |-> "stop", fault |-> "none", discEvt |-> FALSE]
            /\ calls' = <<>>
            /\ UNCHANGED <<bleVars, gattsVars, gapVars, stackVars, histVars, world>>
       ELSE Teardown

\* ------------------------------------------------------------------------
\* Specification
\* ------------------------------------------------------------------------
ServerInit == \E cfg \in Configs(world) : ble_server_init(cfg)

ServerStop == ble_server_stop

ServerIsConnected == ble_server_is_connected

GattsRegEvt == \E ok \in BOOLEAN : RegEvt(ok)

GattsCreateEvt == \E ok \in BOOLEAN : CreateEvt(ok)

GattsAddCharEvt == \E ok \in BOOLEAN : AddCharEvt(ok)

GattsAddCharDescrEvt == \E ok \in BOOLEAN : AddCharDescrEvt(ok)

GattsStartEvt == StartEvt

GattsConnectEvt == \E cid \in ConnIds, ok \in BOOLEAN : ConnectEvt(cid, ok)

GattsDisconnectEvt == DisconnectEvt

GattsReadEvt ==
  \E handle \in PeerHandles : \E in \in ReadInputs(handle) : ReadEvt(handle, in[1], in[2])

GattsWriteEvt ==
  \E handle \in PeerHandles, need_rsp \in BOOLEAN :
    \E in \in WriteInputs(handle) : WriteEvt(handle, in[1], need_rsp, in[2])

Next ==
  \/ ServerInit
  \/ ServerStop
  \/ ServerIsConnected
  \/ GattsRegEvt
  \/ GattsCreateEvt
  \/ GattsAddCharEvt
  \/ GattsAddCharDescrEvt
  \/ GattsStartEvt
  \/ GattsConnectEvt
  \/ GattsDisconnectEvt
  \/ GattsReadEvt
  \/ GattsWriteEvt
  \/ AdvDataSetEvt
  \/ ScanRspSetEvt

Spec == Init /\ [][Next]_vars

\* the host task delivers every queued GATT event to gatts_event_handler
FairSpec ==
  /\ Spec
  /\ WF_vars(GattsRegEvt)
  /\ WF_vars(GattsCreateEvt)
  /\ WF_vars(GattsStartEvt)
  /\ WF_vars(GattsAddCharEvt)
  /\ WF_vars(GattsAddCharDescrEvt)

\* ------------------------------------------------------------------------
\* gatts_event_handler given add completions it was given before
\* ------------------------------------------------------------------------
\* gatts_event_handler looks at neither the interface nor the request an
\* event answers: the add completions handled, and those queued, beyond the
\* add requests issued
Repeats ==
  Len(SelectSeq(delivered, LAMBDA d : d.evt \in {"ADD_CHAR_EVT", "ADD_CHAR_DESCR_EVT"}))
    + Len(SelectSeq(gattsQ, LAMBDA e : e.evt \in {"ADD_CHAR", "ADD_CHAR_DESCR"}))
    - Len(issued)

\* the add completions of the kind evt handled so far
Handled(evt) == { j \in 1..Len(delivered) : delivered[j].evt = evt }

\* ESP_GATTS_ADD_CHAR_EVT with the status and handle of an earlier one, out
\* of turn: the queue of the stack is left as it is
GattsRepeatedAddCharEvt ==
  /\ GattsUp /\ Repeats < MaxRepeats
  /\ \E j \in Handled("ADD_CHAR_EVT") :
       AddCharHandled(delivered[j].ok, delivered[j].handle, gattsQ, delivered)

\* ESP_GATTS_ADD_CHAR_DESCR_EVT with the status and handle of an earlier one
GattsRepeatedAddCharDescrEvt ==
  /\ GattsUp /\ Repeats < MaxRepeats
  /\ \E j \in Handled("ADD_CHAR_DESCR_EVT") :
       AddCharDescrHandled(delivered[j].ok, delivered[j].handle, gattsQ, delivered)

NextAnyOrder ==
  \/ Next
  \/ GattsRepeatedAddCharEvt
  \/ GattsRepeatedAddCharDescrEvt

\* the lists of the short configurations are enough to meet every case
InitAnyOrder == Init /\ world = "short"

SpecAnyOrder == InitAnyOrder /\ [][NextAnyOrder]_vars

\* ------------------------------------------------------------------------
\* Properties
\* ------------------------------------------------------------------------
\* the module state of the three modules and the state of the stack
programVars == <<bleVars, gattsVars, gapVars, stackVars>>

\* the last operation was ble_server_init and it read its configuration
InitOf(op, arg) == op = "init" /\ arg.kind = "config"

IsPrefix(a, b) == Len(a) <= Len(b) /\ SubSeq(b, 1, Len(a)) = a

AllCallbacks(chars) == \A i \in 1..Len(chars) : chars[i].read \/ chars[i].write

\* the add requests for the first n entries of chars, in list order
RECURSIVE ExpectedAdds(_, _, _)
ExpectedAdds(chars, svc, n) ==
  IF n = 0 THEN <<>>
  ELSE ExpectedAdds(chars, svc, n - 1)
         \o <<AddCharCall(svc, chars[n])>>
         \o (IF chars[n].description # <<>> THEN <<AddDescrCall(svc, chars[n])>> ELSE <<>>)

\* the completions of add requests delivered so far, and whether every
\* completion of the registration was a success
AddCompletions ==
  SelectSeq(delivered, LAMBDA d : d.evt \in {"ADD_CHAR_EVT", "ADD_CHAR_DESCR_EVT"})

AllSucceeded == \A i \in 1..Len(delivered) : delivered[i].ok

Ready == s_char_count >= 1 /\ s_registered_chars = s_char_count

\* C1: ble_server_init called while s_initialized returns
\* BLE_ALREADY_INITIALIZED, issues no stack call and leaves the stored
\* configuration, the handle table, the registration index, the connection
\* state and the stack as they were, whatever the configuration argument.
C1_InitTwiceRefused ==
  [][(s_initialized /\ lastOp' = "init")
       => /\ lastRet' = BLE_ALREADY_INITIALIZED
          /\ calls' = <<>>
          /\ UNCHANGED <<programVars, histVars>>]_vars

\* an init refused on a server with a connected peer
C1_Witness ==
  lastOp = "init" /\ lastRet = BLE_ALREADY_INITIALIZED /\ s_initialized /\ s_is_connected

\* C2: for a list of 1..16 characteristics that all have a callback, the add
\* requests issued are a prefix of: one add-characteristic per entry, followed
\* by one add-descriptor when the entry has a description, in list order (so at
\* most 2N); when the registration index reaches N exactly these requests were
\* issued, entry i of the handle table holds the handles delivered for
\* definition i and find_char_by_handle maps the value handle back to i; and
\* while every completion is a success and the host stays up, a started
\* registration reaches that state.
C2_InOrder ==
  (s_char_count \in 1..MAX_CHARACTERISTICS /\ AllCallbacks(s_characteristics))
    => LET exp == ExpectedAdds(s_characteristics, s_service_handle, s_char_count)
       IN /\ IsPrefix(issued, exp)
          /\ Len(issued) <= 2 * s_char_count
          /\ Ready =>
               /\ issued = exp
               /\ Len(AddCompletions) = Len(exp)
               /\ \A i \in 0..(s_char_count - 1) :
                    LET pos == Len(ExpectedAdds(s_characteristics, s_service_handle, i)) + 1
                        ch == CharAt(s_characteristics, i)
                    IN /\ s_char_handles[i].def = i
                       /\ s_char_handles[i].char_handle = AddCompletions[pos].handle
                       /\ s_char_handles[i].descr_handle =
                            (IF ch.description # <<>> THEN AddCompletions[pos + 1].handle ELSE 0)
                       /\ find_char_by_handle(AddCompletions[pos].handle) = i

C2_Started ==
  s_initialized /\ s_char_count \in 1..MAX_CHARACTERISTICS /\ AllCallbacks(s_characteristics)

C2_Settled == Ready \/ ~AllSucceeded \/ ~s_initialized \/ host # "enabled"

C2_Registration == []C2_InOrder /\ (C2_Started ~> C2_Settled)

\* a full list, descriptions included, registered to the end
C2_Witness ==
  /\ s_initialized /\ AllSucceeded /\ Ready
  /\ s_char_count = MAX_CHARACTERISTICS
  /\ \E i \in 0..(s_char_count - 1) : s_char_handles[i].descr_handle # 0

\* C3, as stated: ble_server_init with a characteristic count of 0 or a NULL
\* array always returns BLE_INVALID_CHARS, with no stack call and the server
\* left uninitialized.
C3_ZeroCharsAlways ==
  (InitOf(lastOp, lastArg) /\ lastArg.noChars)
    => (lastRet = BLE_INVALID_CHARS /\ calls = <<>> /\ ~s_initialized)

\* C3, amended: ble_server_init called while not initialized, with a non-NULL
\* configuration that has a device name and a characteristic count of 0 or a
\* NULL array, returns BLE_INVALID_CHARS, issues no stack call (nvm_init
\* included), queues no event and leaves the server uninitialized.
C3_ZeroCharsRejected ==
  [][(/\ ~s_initialized
      /\ InitOf(lastOp', lastArg')
      /\ ~lastArg'.isNull /\ ~lastArg'.noName /\ lastArg'.noChars)
       => /\ lastRet' = BLE_INVALID_CHARS
          /\ calls' = <<>>
          /\ ~s_initialized'
          /\ UNCHANGED <<programVars, histVars>>]_vars

C3_Witness ==
  /\ InitOf(lastOp, lastArg) /\ lastArg.noChars /\ ~lastArg.noName
  /\ lastRet = BLE_INVALID_CHARS

\* C4: ble_server_init with a list that has an entry without read and without
\* write callback does not return BLE_SUCCESS, and no add-characteristic
\* request is issued for an entry without capability.
C4_NoCapabilityRejected ==
  /\ (InitOf(lastOp, lastArg) /\ lastArg.noCap) => lastRet # BLE_SUCCESS
  /\ \A i \in 1..Len(issued) :
       issued[i].api = "esp_ble_gatts_add_char" => issued[i].arg.prop # 0

\* C5: ble_server_init with more than MAX_CHARACTERISTICS characteristics
\* returns BLE_INVALID_CONFIG and has issued no stack call.
C5_TooManyRejectedEarly ==
  (InitOf(lastOp, lastArg) /\ lastArg.tooMany)
    => (lastRet = BLE_INVALID_CONFIG /\ calls = <<>>)

\* C6: ble_server_init called while not initialized with a NULL configuration
\* or without a device name returns BLE_INVALID_CONFIG, issues no stack call
\* and leaves the server uninitialized, with every module variable and the
\* stack unchanged.
C6_InvalidConfigRejected ==
  [][(/\ ~s_initialized
      /\ InitOf(lastOp', lastArg')
      /\ (lastArg'.isNull \/ lastArg'.noName))
       => /\ lastRet' = BLE_INVALID_CONFIG
          /\ calls' = <<>>
          /\ ~s_initialized'
          /\ UNCHANGED <<programVars, histVars>>]_vars

\* a configuration without name refused after an earlier init / stop cycle
C6_Witness ==
  /\ InitOf(lastOp, lastArg) /\ lastArg.noName
  /\ lastRet = BLE_INVALID_CONFIG
  /\ s_char_count > 0

\* C7: when ble_server_init has failed on a configuration without device
\* name, without characteristics, with a characteristic without capability or
\* with too many characteristics, the next ble_server_init, with a
\* configuration that has none of these errors, returns BLE_SUCCESS.
ConfigError(arg) == arg.noName \/ arg.noChars \/ arg.noCap \/ arg.tooMany

C7_RetrySucceeds ==
  [][(/\ InitOf(lastOp, lastArg) /\ ConfigError(lastArg) /\ lastRet # BLE_SUCCESS
      /\ InitOf(lastOp', lastArg') /\ ~lastArg'.isNull /\ ~ConfigError(lastArg'))
       => lastRet' = BLE_SUCCESS]_vars

\* C8: after ble_server_stop returned BLE_SUCCESS, s_initialized is false,
\* ble_server_is_connected answers false, and the handle table is cleared:
\* no handle resolves to a characteristic.
C8_StopResets ==
  (lastOp = "stop" /\ lastRet = BLE_SUCCESS)
    => /\ ~s_initialized
       /\ ~ble_gatts_is_connected
       /\ s_char_handles = EmptyTable
       /\ \A h \in StackFirstHandle..nextHandle : find_char_by_handle(h) = NoDef

\* C9: ble_server_stop called while not initialized returns
\* BLE_NOT_INITIALIZED, issues no stack call and changes no state.
C9_StopRefused ==
  [][(~s_initialized /\ lastOp' = "stop")
       => /\ lastRet' = BLE_NOT_INITIALIZED
          /\ calls' = <<>>
          /\ UNCHANGED <<programVars, histVars>>]_vars

\* a stop refused after an init that failed with the host stack enabled
C9_Witness ==
  lastOp = "stop" /\ lastRet = BLE_NOT_INITIALIZED /\ host = "enabled"

\* C10: the teardown calls of ble_server_stop are a prefix of: stop
\* advertising, host disable, host deinit, controller disable, controller
\* deinit, in this order; no call follows a failed host or controller call;
\* the result is BLE_GENERIC_ERROR exactly when the last call issued failed,
\* and BLE_SUCCESS exactly when all five were issued and the last succeeded.
TeardownCalls ==
  SelectSeq(calls, LAMBDA c : \E j \in 1..Len(StopSteps) : c.api = StopSteps[j])

C10_TeardownOrder ==
  (lastOp = "stop" /\ lastRet # BLE_NOT_INITIALIZED)
    => LET cs == TeardownCalls
       IN /\ Len(cs) \in 2..Len(StopSteps)
          /\ \A j \in 1..Len(cs) : cs[j].api = StopSteps[j]
          /\ \A j \in 2..(Len(cs) - 1) : cs[j].ok
          /\ (lastRet = BLE_GENERIC_ERROR) <=> ~cs[Len(cs)].ok
          /\ (lastRet = BLE_SUCCESS) <=> (Len(cs) = Len(StopSteps) /\ cs[Len(cs)].ok)

\* a teardown given up at esp_bt_controller_disable, after a failed stop of
\* the advertising
C10_Witness ==
  /\ lastOp = "stop" /\ lastRet = BLE_GENERIC_ERROR
  /\ Len(TeardownCalls) = 4
  /\ ~TeardownCalls[4].ok

\* the position of the first call of api in cs, 0 when there is none
CallPos(cs, api) ==
  LET hits == { j \in 1..Len(cs) : cs[j].api = api }
  IN IF hits = {} THEN 0 ELSE CHOOSE j \in hits : \A h \in hits : j <= h

\* controller init, controller enable, host init, host enable
PowerOnSteps == <<InitSteps[2], InitSteps[3], InitSteps[4], InitSteps[5]>>

\* the calls of ble_gatts_init and ble_gap_init
RegistrationApis ==
  { InitSteps[i] : i \in 7..12 } \cup {"esp_ble_gatt_set_local_mtu"}

\* C11: in the calls of ble_server_init, a call of ble_gatts_init or
\* ble_gap_init comes only after esp_bt_controller_init,
\* esp_bt_controller_enable, esp_bluedroid_init and esp_bluedroid_enable were
\* called in this order and succeeded; when one of these four fails, init
\* returns BLE_GENERIC_ERROR, no call of ble_gatts_init or ble_gap_init is
\* issued, and s_initialized stays false.
C11_BringUpOrder ==
  InitOf(lastOp, lastArg)
    => /\ \A j \in 1..Len(calls) :
            calls[j].api \in RegistrationApis
              => /\ \A i \in 1..4 :
                      /\ CallPos(calls, PowerOnSteps[i]) \in 1..(j - 1)
                      /\ calls[CallPos(calls, PowerOnSteps[i])].ok
                 /\ \A i \in 1..3 :
                      CallPos(calls, PowerOnSteps[i]) < CallPos(calls, PowerOnSteps[i + 1])
       /\ (\E j \in 1..Len(calls) :
             /\ \E i \in 1..4 : calls[j].api = PowerOnSteps[i]
             /\ ~calls[j].ok)
            => /\ lastRet = BLE_GENERIC_ERROR
               /\ \A j \in 1..Len(calls) : calls[j].api \notin RegistrationApis
               /\ ~s_initialized

\* an init given up at esp_bluedroid_enable
C11_Witness ==
  /\ InitOf(lastOp, lastArg) /\ lastRet = BLE_GENERIC_ERROR
  /\ Len(calls) > 0
  /\ calls[Len(calls)].api = "esp_bluedroid_enable" /\ ~calls[Len(calls)].ok

\* C12: ble_server_is_connected changes no state and issues no call; it
\* answers true exactly when the last connection event given to
\* gatts_event_handler was a connect, and false before any connect.
C12_IsConnectedPure ==
  [][(lastOp' = "is_connected")
       => /\ lastRet' = (IF connEvt = "connect" THEN 1 ELSE 0)
          /\ calls' = <<>>
          /\ UNCHANGED <<programVars, histVars>>]_vars

\* the query answering false after a peer connected and went away
C12_Witness ==
  lastOp = "is_connected" /\ lastRet = 0 /\ connEvt = "disconnect" /\ s_conn_id # 0

\* the last operation was the dispatch of a peer request that did not panic
RequestOf(op) == lastOp = op /\ lastArg.kind = "request" /\ lastArg.path # "null def"

Responses == SelectSeq(calls, LAMBDA c : c.api = "esp_ble_gatts_send_response")

\* table entries whose handle of the kind was delivered and equals h
ValueEntries(h) ==
  { i \in 0..(s_char_count - 1) :
      s_char_handles[i].def # NoDef /\ s_char_handles[i].char_handle = h }

DescrEntries(h) ==
  { i \in 0..(s_char_count - 1) :
      /\ s_char_handles[i].def # NoDef
      /\ s_char_handles[i].descr_handle # 0 /\ s_char_handles[i].descr_handle = h }

\* C13: a read event on the value handle of a registered characteristic
\* without read callback is answered with ESP_GATT_READ_NOT_PERMIT and no
\* callback is invoked.
C13_ReadNotPermitted ==
  (/\ RequestOf("READ_EVT")
   /\ DescrEntries(lastArg.handle) = {}
   /\ \E i \in ValueEntries(lastArg.handle) : ~CharAt(s_characteristics, i).read)
    => /\ lastArg.invoked = <<>>
       /\ Len(calls) = 1 /\ Len(Responses) = 1
       /\ Responses[1].arg.status = ESP_GATT_READ_NOT_PERMIT

\* a read of a write-only characteristic
C13_Witness ==
  /\ RequestOf("READ_EVT") /\ lastArg.path = "not permitted"
  /\ \E i \in ValueEntries(lastArg.handle) : CharAt(s_characteristics, i).write

\* C14: a write event on the value handle of a registered characteristic
\* without write callback is answered with ESP_GATT_WRITE_NOT_PERMIT and no
\* callback is invoked.
C14_WriteNotPermitted ==
  (/\ RequestOf("WRITE_EVT")
   /\ \E i \in ValueEntries(lastArg.handle) : ~CharAt(s_characteristics, i).write)
    => /\ lastArg.invoked = <<>>
       /\ Len(calls) = 1 /\ Len(Responses) = 1
       /\ Responses[1].arg.status = ESP_GATT_WRITE_NOT_PERMIT

\* a write to a read-only characteristic
C14_Witness ==
  /\ RequestOf("WRITE_EVT") /\ lastArg.path = "not permitted"
  /\ \E i \in ValueEntries(lastArg.handle) : CharAt(s_characteristics, i).read

\* C15: a write event on a characteristic with a write callback invokes that
\* callback once, with the bytes and the length of the event; a response that
\* is sent carries: 0 for Ok, invalid attribute length for ErrSize, out of
\* range for ErrValue, write not permitted for ErrReadOnly, busy for ErrBusy,
\* and the generic error for every other value; one is sent when the event
\* asks for it.
C15_WriteDispatch ==
  (/\ RequestOf("WRITE_EVT")
   /\ \E i \in ValueEntries(lastArg.handle) : CharAt(s_characteristics, i).write)
    => /\ Len(lastArg.invoked) = 1
       /\ lastArg.invoked[1].fn = "write"
       /\ lastArg.invoked[1].index \in ValueEntries(lastArg.handle)
       /\ lastArg.invoked[1].in_data = lastArg.value
       /\ lastArg.invoked[1].len = Len(lastArg.value)
       /\ lastArg.need_rsp => Len(Responses) = 1
       /\ \A j \in 1..Len(Responses) :
            Responses[j].arg.status =
              (IF lastArg.cbRet = 0 THEN 0
               ELSE IF lastArg.cbRet = 1 THEN 13
               ELSE IF lastArg.cbRet = 2 THEN 255
               ELSE IF lastArg.cbRet = 3 THEN 3
               ELSE IF lastArg.cbRet = 4 THEN 132
               ELSE 133)

\* a write whose callback answered ErrValue
C15_Witness ==
  /\ RequestOf("WRITE_EVT") /\ lastArg.path = "callback"
  /\ lastArg.cbRet = BLE_CHAR_ERR_VALUE /\ lastArg.need_rsp
  /\ Len(Responses) = 1

\* C16: a write event that does not ask for a response is never answered, on
\* whatever path it is dispatched.
C16_NoUnaskedResponse ==
  (RequestOf("WRITE_EVT") /\ ~lastArg.need_rsp) => Responses = <<>>

\* C17: a read or write event whose handle is the value handle of no
\* registered characteristic (and, for a read, the descriptor handle of none)
\* is answered with ESP_GATT_INVALID_HANDLE, invokes no callback and is not
\* fatal, in every state of the server.
C17_UnknownHandle ==
  [][(/\ lastOp' \in {"READ_EVT", "WRITE_EVT"}
      /\ ValueEntries(lastArg'.handle) = {}
      /\ lastOp' = "READ_EVT" => DescrEntries(lastArg'.handle) = {})
       => /\ lastArg'.path # "null def"
          /\ lastArg'.invoked = <<>>
          /\ Len(calls') = 1
          /\ calls'[1].api = "esp_ble_gatts_send_response"
          /\ calls'[1].arg.status = ESP_GATT_INVALID_HANDLE]_vars

\* C18: a read event on a characteristic with a read callback invokes that
\* callback once, with the buffer of the response and its size; a return
\* n >= 0 is answered with ESP_GATT_OK and n bytes, a negative return with
\* ESP_GATT_ERROR and no data.
C18_ReadDispatch ==
  (/\ RequestOf("READ_EVT")
   /\ DescrEntries(lastArg.handle) = {}
   /\ \E i \in ValueEntries(lastArg.handle) : CharAt(s_characteristics, i).read)
    => /\ Len(lastArg.invoked) = 1
       /\ lastArg.invoked[1].fn = "read"
       /\ lastArg.invoked[1].index \in ValueEntries(lastArg.handle)
       /\ lastArg.invoked[1].max_len = ESP_GATT_MAX_ATTR_LEN
       /\ Len(calls) = 1 /\ Len(Responses) = 1
       /\ IF lastArg.cbRet >= 0
            THEN /\ Responses[1].arg.status = ESP_GATT_OK
                 /\ Responses[1].arg.rsp.len = lastArg.cbRet
                 /\ Responses[1].arg.rsp.handle = lastArg.handle
            ELSE /\ Responses[1].arg.status = ESP_GATT_ERROR
                 /\ Responses[1].arg.rsp = NoRsp

\* a read whose callback returned no byte
C18_Witness ==
  /\ RequestOf("READ_EVT") /\ lastArg.path = "callback" /\ lastArg.cbRet = 0
  /\ Len(Responses) = 1

\* C19: a read event on a registered descriptor handle, at offset o of a
\* description of length L, invokes no callback and is answered with
\* ESP_GATT_OK: no byte when o >= L, else min(L - o, size of the response
\* buffer) bytes, which are the bytes of the description from o on. The
\* descriptor handles are looked up first.
C19_DescriptorRead ==
  (RequestOf("READ_EVT") /\ DescrEntries(lastArg.handle) # {})
    => \E i \in DescrEntries(lastArg.handle) :
         LET descr == CharAt(s_characteristics, i).description
             L == Len(descr)
             o == lastArg.offset
             n == IF o >= L THEN 0 ELSE Min(L - o, ESP_GATT_MAX_ATTR_LEN)
         IN /\ lastArg.invoked = <<>>
            /\ Len(calls) = 1 /\ Len(Responses) = 1
            /\ Responses[1].arg.status = ESP_GATT_OK
            /\ Responses[1].arg.rsp.len = n
            /\ Len(Responses[1].arg.rsp.value) = n
            /\ \A b \in 1..n : Responses[1].arg.rsp.value[b] = descr[o + b]

\* a descriptor read at the end of the description
C19_Witness ==
  /\ RequestOf("READ_EVT") /\ lastArg.path = "descriptor"
  /\ lastArg.offset = Len(SomeDescription)
  /\ Responses[1].arg.rsp.len = 0

\* C20: the dispatch of a read or write event that invoked a callback leaves
\* s_initialized, the registration, the handle table, the connection state
\* and the stack unchanged, whatever the callback returned.
C20_NoEscalation ==
  [][(/\ lastOp' \in {"READ_EVT", "WRITE_EVT"}
      /\ lastArg'.invoked # <<>>)
       => UNCHANGED <<programVars, histVars>>]_vars

\* a write callback that returned a value outside ble_char_error_t, and a
\* server that is still up
C20_Witness ==
  /\ RequestOf("WRITE_EVT") /\ lastArg.invoked # <<>>
  /\ lastArg.cbRet = MaxWriteResult
  /\ s_initialized /\ s_is_connected

C22_ConnectUpdatesParams ==
  [][(lastOp' = "CONNECT_EVT")
       => /\ s_conn_id' = lastArg'.conn_id
          /\ s_is_connected'
          /\ Len(lastArg'.gap) = 1
          /\ lastArg'.gap[1].fn = "ble_gap_update_connection_params"
          /\ lastArg'.gap[1].arg =
               [bda |-> lastArg'.remote_bda, min_interval |-> 32, max_interval |-> 64,
                latency |-> 0, timeout |-> 400]
          /\ Len(calls') = 1
          /\ calls'[1].arg.bda = lastArg'.remote_bda]_vars

\* a connect event whose parameter update the stack refused
C22_Witness ==
  /\ lastOp = "CONNECT_EVT" /\ s_is_connected /\ s_conn_id = lastArg.conn_id
  /\ Len(calls) = 1 /\ ~calls[1].ok

\* C23: ble_server_init and ble_server_stop return 0 on success and a
\* negative value otherwise.
C23_ErrorsNegative ==
  (lastOp \in {"init", "stop"} /\ lastRet # BLE_SUCCESS) => lastRet < 0

\* the requests of the kinds evts whose completion event is still queued
InFlight(q, evts) == Len(SelectSeq(q, LAMBDA e : e.evt \in evts))

CreationEvts == {"CREATE", "ADD_CHAR", "ADD_CHAR_DESCR"}

CallsOf(cs, apis) == SelectSeq(cs, LAMBDA c : c.api \in apis)

OkAddCompletions(ds) ==
  SelectSeq(ds, LAMBDA d : d.evt \in {"ADD_CHAR_EVT", "ADD_CHAR_DESCR_EVT"} /\ d.ok)

\* C24: at most one create-service, add-characteristic or add-descriptor
\* request waits for its completion event; a create-service request is issued
\* only by the handler of a successful REG event and an add request only by
\* the handler of the successful completion of the creation request before
\* it, which was the only one waiting; when the add-characteristic request of
\* an index is issued, every add request issued before has been completed
\* and every entry below the index holds its value handle and, when it has a
\* description, its descriptor handle.
C24_OneCreationInFlight ==
  [][/\ InFlight(gattsQ', CreationEvts) <= 1
     /\ CallsOf(calls', {"esp_ble_gatts_create_service"}) # <<>>
          => lastOp' = "REG_EVT" /\ lastArg'.ok /\ InFlight(gattsQ, CreationEvts) = 0
     /\ CallsOf(calls', {"esp_ble_gatts_add_char", "esp_ble_gatts_add_char_descr"}) # <<>>
          => /\ lastOp' \in {"CREATE_EVT", "ADD_CHAR_EVT", "ADD_CHAR_DESCR_EVT"}
             /\ lastArg'.ok
             /\ Head(gattsQ).evt \o "_EVT" = lastOp'
             /\ InFlight(gattsQ, CreationEvts) = 1
             /\ Len(CallsOf(calls', {"esp_ble_gatts_add_char", "esp_ble_gatts_add_char_descr"})) = 1
             /\ Len(OkAddCompletions(delivered')) = Len(issued)
     /\ CallsOf(calls', {"esp_ble_gatts_add_char"}) # <<>>
          => \A j \in 0..(s_registered_chars' - 1) :
               /\ s_char_handles'[j].char_handle # 0
               /\ CharAt(s_characteristics', j).description # <<>>
                    => s_char_handles'[j].descr_handle # 0]_vars

\* the add-characteristic request of the last entry of a full list waits for
\* its completion
C24_Witness ==
  /\ lastOp \in {"ADD_CHAR_EVT", "ADD_CHAR_DESCR_EVT"}
  /\ s_registered_chars = MAX_CHARACTERISTICS - 1
  /\ CallsOf(calls, {"esp_ble_gatts_add_char"}) # <<>>
  /\ InFlight(gattsQ, CreationEvts) = 1

\* C25: at most one create-service, start-service, add-characteristic or
\* add-descriptor request waits for its completion event.
C25_OneRequestInFlight ==
  InFlight(gattsQ, CreationEvts \cup {"START"}) <= 1

\* C26: the handler of a successful REG event issues exactly one
\* create-service request, whose number of handles is 1 + 3 * N for the
\* configured characteristic count N, which is in 1..16; and no
\* add-characteristic request is issued before a successful CREATE event was
\* handled.
C26_CreateServiceBudget ==
  [][/\ (lastOp' = "REG_EVT" /\ lastArg'.ok)
          => /\ Len(calls') = 1
             /\ calls'[1].api = "esp_ble_gatts_create_service"
             /\ s_char_count \in 1..16
             /\ s_char_count = s_config.characteristic_count
             /\ calls'[1].arg.num_handles = 1 + 3 * s_char_count
             /\ calls'[1].arg.uuid = s_config.service_uuid
     /\ CallsOf(calls', {"esp_ble_gatts_add_char"}) # <<>>
          => \E j \in 1..Len(delivered') :
               delivered'[j].evt = "CREATE_EVT" /\ delivered'[j].ok]_vars

\* the service of a full list asked for with 49 handles
C26_Witness ==
  /\ lastOp = "REG_EVT" /\ lastArg.kind = "event" /\ lastArg.ok
  /\ s_char_count = MAX_CHARACTERISTICS
  /\ Len(calls) = 1 /\ calls[1].arg.num_handles = 49

\* the requests a handler issues once entry i is complete: the
\* add-characteristic request of definition i + 1, or none after the last
RequestsAfter(cs, i) ==
  IF i + 1 < s_char_count
    THEN /\ Len(cs) = 1
         /\ cs[1].api = "esp_ble_gatts_add_char"
         /\ cs[1].arg.uuid = CharAt(s_characteristics, i + 1).uuid
    ELSE cs = <<>>

\* C27: the handler of a successful ADD_CHAR event at index i < N stores the
\* delivered handle as the value handle of entry i and leaves the other
\* entries alone; when definition i has a non-empty description it issues
\* exactly one add-descriptor request and keeps the index, otherwise the
\* index becomes i + 1 and it issues exactly one add-characteristic request,
\* for definition i + 1, when i + 1 < N, and no request when i + 1 = N,
\* where the registration is complete.
C27_AddCharCompletion ==
  [][(lastOp' = "ADD_CHAR_EVT" /\ lastArg'.ok /\ s_registered_chars < s_char_count)
       => LET i == s_registered_chars
              ch == CharAt(s_characteristics, i)
          IN /\ s_char_handles'[i].char_handle = Head(gattsQ).handle
             /\ s_char_handles'[i].char_handle # 0
             /\ s_char_handles'[i].descr_handle = s_char_handles[i].descr_handle
             /\ \A j \in (DOMAIN s_char_handles) \ {i} : s_char_handles'[j] = s_char_handles[j]
             /\ IF ch.description # <<>>
                  THEN /\ s_registered_chars' = i
                       /\ Len(calls') = 1
                       /\ calls'[1].api = "esp_ble_gatts_add_char_descr"
                       /\ calls'[1].arg.attr_value = ch.description
                  ELSE /\ s_registered_chars' = i + 1
                       /\ RequestsAfter(calls', i)
                       /\ (i + 1 = s_char_count) => Ready']_vars

\* the value handle of the last entry of a full list stored, the entry
\* having no description
C27_Witness ==
  /\ lastOp = "ADD_CHAR_EVT" /\ lastArg.kind = "event" /\ lastArg.ok
  /\ s_char_count = MAX_CHARACTERISTICS /\ Ready /\ calls = <<>>
  /\ s_char_handles[MAX_CHARACTERISTICS - 1].char_handle = lastArg.handle

\* C28: a successful ADD_CHAR_DESCR event arrives for the current index i:
\* the completion handled just before among the add completions is the
\* successful ADD_CHAR event that stored the value handle of entry i; the
\* handler stores the delivered handle as the descriptor handle of that
\* entry and leaves the rest of the table alone, the index becomes i + 1, and
\* it issues exactly one add-characteristic request, for definition i + 1,
\* when i + 1 < N, and no request when i + 1 = N, where the registration is
\* complete.
C28_AddDescrCompletion ==
  [][(lastOp' = "ADD_CHAR_DESCR_EVT" /\ lastArg'.ok)
       => LET i == s_registered_chars
              done == AddCompletions
          IN /\ i < s_char_count
             /\ done # <<>>
             /\ done[Len(done)] = [evt |-> "ADD_CHAR_EVT", ok |-> TRUE,
                                   handle |-> s_char_handles[i].char_handle]
             /\ s_char_handles'[i].descr_handle = Head(gattsQ).handle
             /\ s_char_handles'[i].descr_handle # 0
             /\ s_char_handles'[i].char_handle = s_char_handles[i].char_handle
             /\ s_char_handles'[i].def = i
             /\ \A j \in (DOMAIN s_char_handles) \ {i} : s_char_handles'[j] = s_char_handles[j]
             /\ s_registered_chars' = i + 1
             /\ RequestsAfter(calls', i)
             /\ (i + 1 = s_char_count) => Ready']_vars

\* the descriptor handle of the second entry of a list stored, and the third
\* entry asked for
C28_Witness ==
  /\ lastOp = "ADD_CHAR_DESCR_EVT" /\ lastArg.kind = "event" /\ lastArg.ok
  /\ s_registered_chars = 2
  /\ s_char_handles[1].descr_handle = lastArg.handle
  /\ CallsOf(calls, {"esp_ble_gatts_add_char"}) # <<>>

\* C29: every add-characteristic request, whether the CREATE, the ADD_CHAR
\* or the ADD_CHAR_DESCR handler issued it, carries the service handle, the
\* UUID of the definition at the registration index, the permissions
\* (read 0x01 iff the read callback is present) + (write 0x10 iff the write
\* callback is present) and the properties (read 0x02 iff read) + (write
\* 0x08 iff write).
C29_AddCharArguments ==
  \A j \in 1..Len(calls) :
    calls[j].api = "esp_ble_gatts_add_char"
      => /\ lastOp \in {"CREATE_EVT", "ADD_CHAR_EVT", "ADD_CHAR_DESCR_EVT"}
         /\ s_registered_chars < s_char_count
         /\ LET ch == CharAt(s_characteristics, s_registered_chars)
            IN /\ calls[j].arg.service_handle = s_service_handle
               /\ calls[j].arg.uuid = ch.uuid
               /\ calls[j].arg.perm =
                    (IF ch.read THEN 1 ELSE 0) + (IF ch.write THEN 16 ELSE 0)
               /\ calls[j].arg.prop =
                    (IF ch.read THEN 2 ELSE 0) + (IF ch.write THEN 8 ELSE 0)

\* the request for a write-only entry issued by the ADD_CHAR handler of the
\* entry before it, one for a read/write entry issued by the ADD_CHAR_DESCR
\* handler, or one for an entry without callback issued by the CREATE handler
C29_Witness ==
  /\ Len(calls) > 0
  /\ calls[Len(calls)].api = "esp_ble_gatts_add_char"
  /\ \/ lastOp = "ADD_CHAR_EVT" /\ calls[Len(calls)].arg.perm = 16
     \/ lastOp = "ADD_CHAR_DESCR_EVT" /\ calls[Len(calls)].arg.prop = 10
     \/ lastOp = "CREATE_EVT" /\ calls[Len(calls)].arg.perm = 0

CompletionEvts == {"REG_EVT", "CREATE_EVT", "ADD_CHAR_EVT", "ADD_CHAR_DESCR_EVT"}

\* a completion of the registration begun by the last ble_gatts_init failed
SomeFailed(ds) ==
  \E j \in 1..Len(ds) : ds[j].evt \in CompletionEvts /\ ~ds[j].ok

\* C30: the handler of a REG, CREATE, ADD_CHAR or ADD_CHAR_DESCR event with
\* a non-success status issues no call and leaves every static of the
\* server alone, the handles stored before included; and from then on, until
\* ble_gatts_init runs again or the chip restarts, no create or add request
\* is issued and the registration index does not reach the characteristic
\* count.
C30_FailureAborts ==
  [][/\ (lastOp' \in CompletionEvts /\ ~lastArg'.ok)
          => /\ calls' = <<>>
             /\ UNCHANGED <<bleVars, gattsVars, gapVars>>
             /\ issued' = issued
             /\ gattsQ' = Tail(gattsQ)
     /\ SomeFailed(delivered')
          => /\ ~Ready'
             /\ CallsOf(calls', {"esp_ble_gatts_create_service", "esp_ble_gatts_add_char",
                                 "esp_ble_gatts_add_char_descr"}) = <<>>
             /\ SomeFailed(delivered) => s_char_handles' = s_char_handles]_vars

\* a failed descriptor completion of the second entry: the handles of the
\* first entry and the value handle of the second are kept
C30_Witness ==
  /\ lastOp = "ADD_CHAR_DESCR_EVT" /\ lastArg.kind = "event" /\ ~lastArg.ok
  /\ s_registered_chars = 1 /\ s_char_count > 1
  /\ s_char_handles[0].char_handle # 0
  /\ s_char_handles[1].char_handle # 0 /\ s_char_handles[1].descr_handle = 0
  /\ calls = <<>>

\* the handlers of the completion events of the registration
AddEvts == {"ADD_CHAR_EVT", "ADD_CHAR_DESCR_EVT"}

\* C31: between an init and the next teardown a handle field of the table
\* that was set is not written again: the handler of an add completion leaves
\* every value handle and every descriptor handle that is set as it is,
\* whatever add completions it is given.
C31_HandlesWrittenOnce ==
  [][(lastOp' \in AddEvts)
       => \A i \in 0..(MAX_CHARACTERISTICS - 1) :
            /\ s_char_handles[i].char_handle # 0
                 => s_char_handles'[i].char_handle = s_char_handles[i].char_handle
            /\ s_char_handles[i].descr_handle # 0
                 => s_char_handles'[i].descr_handle = s_char_handles[i].descr_handle]_vars

\* C35: the registration index stays within 0..s_char_count and no handler
\* of a completion event lowers it, whatever add completions, repeated or out
\* of turn, the handler is given.
C35_IndexWithinCount ==
  [][/\ s_registered_chars' \in 0..s_char_count'
     /\ lastOp' \in AddEvts => s_registered_chars' >= s_registered_chars]_vars

\* C32: the size of a characteristic bounds its values: a write whose
\* callback accepted the value carried at most size bytes, and a successful
\* read of the value is answered with at most size bytes.
C32_SizeBounded ==
  /\ (RequestOf("WRITE_EVT") /\ lastArg.path = "callback" /\ lastArg.cbRet = BLE_CHAR_OK)
       => \A j \in 1..Len(lastArg.invoked) :
            lastArg.invoked[j].len <= CharAt(s_characteristics, lastArg.invoked[j].index).size
  /\ (RequestOf("READ_EVT") /\ lastArg.path = "callback" /\ lastArg.cbRet >= 0)
       => \A j \in 1..Len(lastArg.invoked) :
            Responses[1].arg.rsp.len
              <= CharAt(s_characteristics, lastArg.invoked[j].index).size

\* the GAP completion events the stack has not delivered yet
PendingGap == { gapQ[j] : j \in 1..Len(gapQ) }

\* C33: a start-advertising request reaches the stack only when both the
\* completion of the advertising data and the completion of the scan
\* response data have been delivered.
C33_NoEarlyAdvertising ==
  CallsOf(calls, {"esp_ble_gap_start_advertising"}) # <<>> => PendingGap = {}

\* C34: a read or write event, whatever its handle and whatever the progress
\* of the registration, is either answered with ESP_GATT_INVALID_HANDLE or
\* dispatched to an entry whose value handle, or for a read whose descriptor
\* handle, an add completion recorded.
C34_LookupYieldsRecorded ==
  (lastOp \in {"READ_EVT", "WRITE_EVT"})
    => \/ /\ lastArg.path = "unknown"
          /\ Len(Responses) = 1
          /\ Responses[1].arg.status = ESP_GATT_INVALID_HANDLE
       \/ /\ lastArg.path \in {"not permitted", "callback"}
          /\ ValueEntries(lastArg.handle) # {}
       \/ /\ lastArg.path = "descriptor"
          /\ DescrEntries(lastArg.handle) # {}

\* C36: whenever the controller or the host stack is initialized or enabled,
\* s_initialized is true, so that ble_server_stop tears it down; after
\* ble_server_init returned BLE_GENERIC_ERROR nothing of the stack is left
\* initialized or enabled.
C36_StackUpImpliesInitialized ==
  /\ (ctrl # "idle" \/ host # "uninit") => s_initialized
  /\ (lastOp = "init" /\ lastRet = BLE_GENERIC_ERROR) => (ctrl = "idle" /\ host = "uninit")

\* C37: a ble_server_init that succeeded leaves the GATT module as the first
\* one found it: empty table, registration index and pending-descriptor index
\* 0, no connection, no service handle and no GATT interface, also when it
\* follows a successful stop.
C37_ReinitStartsFresh ==
  (lastOp = "init" /\ lastRet = BLE_SUCCESS)
    => /\ s_char_handles = EmptyTable
       /\ s_registered_chars = 0
       /\ s_pending_descr_char = 0
       /\ ~s_is_connected
       /\ s_service_handle = 0
       /\ s_gatts_if = ESP_GATT_IF_NONE

\* C38: every read event is answered with exactly one response, and every
\* write event that asks for a response is answered with exactly one.
C38_ExactlyOneResponse ==
  /\ lastOp = "READ_EVT" => Len(Responses) = 1
  /\ (lastOp = "WRITE_EVT" /\ lastArg.need_rsp) => Len(Responses) = 1

\* C39: the length of a successful read response is at most the capacity
\* the read callback was handed, whatever non-negative value it returned.
C39_ReadLenWithinCapacity ==
  (RequestOf("READ_EVT") /\ lastArg.path = "callback" /\ lastArg.cbRet >= 0)
    => \A j \in 1..Len(lastArg.invoked) :
         Responses[1].arg.rsp.len <= lastArg.invoked[j].max_len

\* C40: a ble_server_stop past its guard asks the stack to stop advertising
\* and then to disable the host stack, whether or not the first request
\* succeeded; when it succeeded the advertising payload is released and no
\* start-advertising request is issued during the teardown; the payload stays
\* released until the next init, and a disconnect event handled while it is
\* released issues no start-advertising request.
C40_NoRestartAfterStop ==
  [][/\ (lastOp' = "stop" /\ lastRet' # BLE_NOT_INITIALIZED)
          => /\ Len(calls') >= 2
             /\ calls'[1].api = "esp_ble_gap_stop_advertising"
             /\ calls'[2].api = "esp_bluedroid_disable"
             /\ calls'[1].ok
                  => /\ ~s_raw_adv_data'
                     /\ CallsOf(calls', {"esp_ble_gap_start_advertising"}) = <<>>
     /\ (~s_raw_adv_data /\ lastOp' # "init") => ~s_raw_adv_data'
     /\ (lastOp' = "DISCONNECT_EVT" /\ ~s_raw_adv_data)
          => CallsOf(calls', {"esp_ble_gap_start_advertising"}) = <<>>]_vars

\* a stop that stopped the advertising and during which the disconnect event
\* of the peer was handled
C40_Witness ==
  /\ lastOp = "stop" /\ lastArg.kind = "stop" /\ lastArg.discEvt
  /\ calls[1].ok /\ ~s_raw_adv_data
  /\ CallsOf(calls, {"esp_ble_gap_start_advertising"}) = <<>>

====
